---- MODULE Spec2Model ----
(***************************************************************************)
(* A model of src/src/result/result.py: the Ok / Err result classes, the   *)
(* UnwrapError they raise, and the as_result / as_async_result decorator   *)
(* factories.                                                              *)
(*                                                                         *)
(* Two specifications share the module.  Spec drives the result classes:   *)
(* a heap of Ok / Err instances and the operations a caller can apply to   *)
(* them.  SpecAdapter drives one decorator factory, the wrapper it makes   *)
(* and the invocations of that wrapper.                                    *)
(***************************************************************************)
EXTENDS Integers, Sequences, FiniteSets, TLC

VARIABLES
    objs,        \* the heap: objs[i] is the Ok / Err instance with identity i
    last,        \* the most recent operation on the heap and its outcome
    adapter,     \* what the decorator factory has produced so far
    lastFactory, \* the most recent factory call and its outcome
    calls        \* the invocations of the wrapper

vars == <<objs, last, adapter, lastFactory, calls>>

resultVars == <<objs, last>>

adapterVars == <<adapter, lastFactory, calls>>

(***************************************************************************)
(* Bounds of the model.                                                    *)
(***************************************************************************)
MaxObjs == 2

MaxSetLen == 3

HashMod == 8

(***************************************************************************)
(* Python values.  A value is a record [t, n]: t is the type's name and n  *)
(* what tells values of the type apart (the number of a bool or an int,    *)
(* the number whose decimal numeral a str is, the identity of an object).  *)
(***************************************************************************)
Val(t, n) == [t |-> t, n |-> n]

None == Val("NoneType", 0)

True == Val("bool", 1)

False == Val("bool", 0)

BoolVal(b) == IF b THEN True ELSE False

IntVal(n) == Val("int", n)

StrVal(n) == Val("str", n)

Ref(i) == Val("ref", i)

Values == {True, IntVal(0), IntVal(1), StrVal(0)}

IsNum(x) == x.t \in {"bool", "int"}

\* x == y on the payload values: bool is a subclass of int and compares as
\* a number (True == 1), a str equals only an equal str ("0" != 0).
ValEq(x, y) ==
    IF IsNum(x) /\ IsNum(y) THEN x.n = y.n
    ELSE x.t = y.t /\ x.n = y.n

\* hash(x) on the payload values: a small number hashes to itself
\* (hash(True) == hash(1) == 1).  A str hashes under a key the process
\* draws at start; all that is used of it is that it is a function of the
\* text, which may collide with a number's hash.
ValHash(x) ==
    IF IsNum(x) THEN x.n % HashMod
    ELSE (5 * x.n + 3) % HashMod

\* hash((d, v)): a function of the two elements' hashes alone.
TupleHash(hd, hv) == (3 * hd + hv + 1) % HashMod

(***************************************************************************)
(* Instances and outcomes.                                                 *)
(***************************************************************************)
NoObj == [cls |-> "none", _value |-> None]

NoExc == [type |-> "none", result |-> 0, message |-> ""]

Ret(v) == [kind |-> "return", ret |-> v, exc |-> NoExc]

Raise(e) == [kind |-> "raise", ret |-> None, exc |-> e]

NoOutcome == [kind |-> "none", ret |-> None, exc |-> NoExc]

Slots(cls) == {"_value"}

MatchArgs(cls) == <<"value">>

ClassAttrs(cls) ==
    {"__match_args__", "__slots__", "__init__", "__repr__", "__eq__",
     "__ne__", "__hash__", "unwrap", "unwrap_or", "err"}

\* isinstance(x, cls) for cls one of Ok, Err.
IsInstance(x, cls) == x.t = "ref" /\ objs[x.n].cls = cls

\* isinstance(x, OkErr)
IsOkErr(x) == IsInstance(x, "Ok") \/ IsInstance(x, "Err")

UnwrapError(result, message) ==
    [type |-> "UnwrapError", result |-> result, message |-> message]

AttributeError(self, message) ==
    [type |-> "AttributeError", result |-> 0, message |-> message]

TypeError(message) == [type |-> "TypeError", result |-> 0, message |-> message]

(***************************************************************************)
(* class Ok                                                                *)
(***************************************************************************)
\* The messages are the source's without its backquotes.
\* Ok.__init__(self, value=True): args is the tuple of positional arguments.
Ok_init(args) ==
    IF Len(args) = 0 THEN [cls |-> "Ok", _value |-> True]
    ELSE [cls |-> "Ok", _value |-> args[1]]

\* A changed Ok.__eq__: no isinstance check of the variant.
Ok_eq_anyvariant(self, other) ==
    other.t = "ref" /\ ValEq(objs[self]._value, objs[other.n]._value)

Ok_eq(self, other) ==
    IsInstance(other, "Ok") /\ ValEq(objs[self]._value, objs[other.n]._value)

Ok_ne(self, other) == ~Ok_eq(self, other)

\* A changed Ok.__hash__: the object's identity, as object.__hash__ gives.
Ok_hash_identity(self) == self % HashMod

Ok_hash(self) == TupleHash(ValHash(True), ValHash(objs[self]._value))

Ok_unwrap(self) == Ret(objs[self]._value)

Ok_unwrap_or(self, default) == Ret(objs[self]._value)

Ok_err(self) ==
    Raise(UnwrapError(self, "Called Result.err() on an Ok value"))

(***************************************************************************)
(* class Err                                                               *)
(***************************************************************************)
Err_init(args) == [cls |-> "Err", _value |-> args[1]]

Err_eq(self, other) ==
    IsInstance(other, "Err") /\ ValEq(objs[self]._value, objs[other.n]._value)

Err_ne(self, other) == ~Err_eq(self, other)

Err_hash(self) == TupleHash(ValHash(False), ValHash(objs[self]._value))

\* A changed Err.unwrap: the error does not carry the instance.
Err_unwrap_noresult(self) ==
    Raise(UnwrapError(0, "Called Result.unwrap() on an Err value"))

Err_unwrap(self) ==
    Raise(UnwrapError(self, "Called Result.unwrap() on an Err value"))

\* A changed Err.unwrap_or: the held error in place of the default.
Err_unwrap_or_held(self, default) == Ret(objs[self]._value)

Err_unwrap_or(self, default) == Ret(default)

Err_err(self) == Ret(objs[self]._value)

(***************************************************************************)
(* The interpreter's part: method dispatch on the instance's class, the    *)
(* == and != operators, attribute access on a slotted instance, the class  *)
(* pattern of a match statement and a set display.                         *)
(***************************************************************************)
IsOk(self) == objs[self].cls = "Ok"

\* x == y: the left operand's __eq__ decides when it is an Ok or an Err
\* (it never returns NotImplemented); otherwise the right operand's
\* reflected __eq__ does; two plain values compare as values.
PyEq(x, y) ==
    IF x.t = "ref" THEN (IF IsOk(x.n) THEN Ok_eq(x.n, y) ELSE Err_eq(x.n, y))
    ELSE IF y.t = "ref" THEN (IF IsOk(y.n) THEN Ok_eq(y.n, x) ELSE Err_eq(y.n, x))
    ELSE ValEq(x, y)

PyNe(x, y) ==
    IF x.t = "ref" THEN (IF IsOk(x.n) THEN Ok_ne(x.n, y) ELSE Err_ne(x.n, y))
    ELSE IF y.t = "ref" THEN (IF IsOk(y.n) THEN Ok_ne(y.n, x) ELSE Err_ne(y.n, x))
    ELSE ~ValEq(x, y)

PyHash(self) == IF IsOk(self) THEN Ok_hash(self) ELSE Err_hash(self)

HasAttr(self, name) ==
    name \in Slots(objs[self].cls) \cup ClassAttrs(objs[self].cls)

\* getattr(self, name), for a name that is read for its value.
GetAttr(self, name) ==
    IF name \in Slots(objs[self].cls) THEN Ret(objs[self]._value)
    ELSE IF name \in ClassAttrs(objs[self].cls) THEN Ret(Val("attr", 0))
    ELSE Raise(AttributeError(self, "object has no attribute"))

\* setattr(self, name, v): the new heap and the outcome.  A slot is
\* writable; the instance has no __dict__ for any other name.
SetAttr(self, name, v) ==
    IF name \in Slots(objs[self].cls)
    THEN [heap |-> [objs EXCEPT ![self]._value = v], out |-> Ret(None)]
    ELSE IF name \in ClassAttrs(objs[self].cls)
    THEN [heap |-> objs,
          out |-> Raise(AttributeError(self, "object attribute is read-only"))]
    ELSE [heap |-> objs,
          out |-> Raise(AttributeError(self, "object has no attribute"))]

NoMatch == [matched |-> FALSE, bind |-> None]

\* match subject: case cls(x): the subject must be an instance of cls, and
\* the attribute cls.__match_args__[0] must be readable on it; a missing
\* attribute fails the pattern, it does not raise.
MatchClass(self, cls) ==
    IF ~IsInstance(Ref(self), cls) THEN NoMatch
    ELSE LET name == MatchArgs(cls)[1]
         IN  IF HasAttr(self, name)
             THEN [matched |-> TRUE, bind |-> GetAttr(self, name).ret]
             ELSE NoMatch

\* The members a set display {ids[1], ..., ids[n]} keeps, in insertion
\* order: an element is dropped when a member has its hash and is the same
\* object or compares equal to it.
RECURSIVE SetDisplay(_)
SetDisplay(ids) ==
    IF Len(ids) = 0 THEN <<>>
    ELSE LET front == SetDisplay(SubSeq(ids, 1, Len(ids) - 1))
             x == ids[Len(ids)]
         IN  IF \E k \in DOMAIN front :
                    /\ PyHash(front[k]) = PyHash(x)
                    /\ (front[k] = x \/ PyEq(Ref(front[k]), Ref(x)))
             THEN front
             ELSE Append(front, x)

(***************************************************************************)
(* Operations on the heap.  Every operation records itself in last, so     *)
(* last always describes the heap as the operation left it.                *)
(***************************************************************************)
NoLast ==
    [op |-> "none", self |-> 0, before |-> NoObj, a |-> None, b |-> None,
     name |-> "", args |-> <<>>, ids |-> <<>>, out |-> NoOutcome, bind |-> None]

Ids == 1..Len(objs)

CtorArgs == {<<>>} \cup {<<v>> : v \in Values}

AttrNames == {"_value", "some_arbitrary_attribute"}

AssignVals == {StrVal(0), IntVal(1)}

Defaults == {IntVal(1), StrVal(0)}

Operands == {Ref(i) : i \in Ids} \cup {StrVal(0)}

IdSeqs == UNION {[1..n -> Ids] : n \in 1..MaxSetLen}

BuildOps == {"none", "Ok", "Err", "setattr"}

\* The heap is being built: nothing has been read from it yet.  A read
\* (unwrap, ==, hash, match, ...) changes nothing, so each run builds a
\* heap, assignments included, and ends with one read of it.
Building == last.op \in BuildOps

\* Ok(), Ok(value)
OkNew(args) ==
    /\ Building
    /\ Len(objs) < MaxObjs
    /\ objs' = Append(objs, Ok_init(args))
    /\ last' = [NoLast EXCEPT !.op = "Ok", !.self = Len(objs) + 1,
                              !.args = args, !.out = Ret(Ref(Len(objs) + 1))]
    /\ UNCHANGED adapterVars

\* Err(value)
ErrNew(args) ==
    /\ Building
    /\ Len(objs) < MaxObjs
    /\ Len(args) = 1
    /\ objs' = Append(objs, Err_init(args))
    /\ last' = [NoLast EXCEPT !.op = "Err", !.self = Len(objs) + 1,
                              !.args = args, !.out = Ret(Ref(Len(objs) + 1))]
    /\ UNCHANGED adapterVars

\* Err(): __init__ has no default for value, the call raises and makes
\* no instance.
ErrNewNoArg ==
    /\ Building
    /\ Len(objs) < MaxObjs
    /\ last' = [NoLast EXCEPT !.op = "Err",
                   !.out = Raise(TypeError("missing 1 required positional argument"))]
    /\ UNCHANGED <<objs, adapterVars>>

\* r.unwrap()
Unwrap(i) ==
    /\ Building
    /\ last' = [NoLast EXCEPT !.op = "unwrap", !.self = i, !.before = objs[i],
                   !.out = IF IsOk(i) THEN Ok_unwrap(i) ELSE Err_unwrap(i)]
    /\ UNCHANGED <<objs, adapterVars>>

\* r.unwrap_or(d)
UnwrapOr(i, d) ==
    /\ Building
    /\ last' = [NoLast EXCEPT !.op = "unwrap_or", !.self = i, !.before = objs[i],
                   !.a = d,
                   !.out = IF IsOk(i) THEN Ok_unwrap_or(i, d) ELSE Err_unwrap_or(i, d)]
    /\ UNCHANGED <<objs, adapterVars>>

\* r.err()
ErrOf(i) ==
    /\ Building
    /\ last' = [NoLast EXCEPT !.op = "err", !.self = i, !.before = objs[i],
                   !.out = IF IsOk(i) THEN Ok_err(i) ELSE Err_err(i)]
    /\ UNCHANGED <<objs, adapterVars>>

\* x == y, one of the two an instance
Eq(x, y) ==
    /\ Building
    /\ x.t = "ref" \/ y.t = "ref"
    /\ last' = [NoLast EXCEPT !.op = "eq", !.a = x, !.b = y,
                              !.out = Ret(BoolVal(PyEq(x, y)))]
    /\ UNCHANGED <<objs, adapterVars>>

\* x != y, one of the two an instance
Ne(x, y) ==
    /\ Building
    /\ x.t = "ref" \/ y.t = "ref"
    /\ last' = [NoLast EXCEPT !.op = "ne", !.a = x, !.b = y,
                              !.out = Ret(BoolVal(PyNe(x, y)))]
    /\ UNCHANGED <<objs, adapterVars>>

\* hash(r)
Hash(i) ==
    /\ Building
    /\ last' = [NoLast EXCEPT !.op = "hash", !.self = i, !.before = objs[i],
                              !.out = Ret(IntVal(PyHash(i)))]
    /\ UNCHANGED <<objs, adapterVars>>

\* r.<name> = v
Assign(i, name, v) ==
    /\ Building
    /\ objs' = SetAttr(i, name, v).heap
    /\ last' = [NoLast EXCEPT !.op = "setattr", !.self = i, !.before = objs[i],
                              !.name = name, !.out = SetAttr(i, name, v).out]
    /\ UNCHANGED adapterVars

\* match r: case cls(x): ...
Match(i, cls) ==
    /\ Building
    /\ last' = [NoLast EXCEPT !.op = "match", !.self = i, !.before = objs[i],
                   !.name = cls,
                   !.out = Ret(BoolVal(MatchClass(i, cls).matched)),
                   !.bind = MatchClass(i, cls).bind]
    /\ UNCHANGED <<objs, adapterVars>>

\* len({r1, ..., rn})
SetOf(ids) ==
    /\ Building
    /\ last' = [NoLast EXCEPT !.op = "set", !.ids = ids,
                              !.out = Ret(IntVal(Len(SetDisplay(ids))))]
    /\ UNCHANGED <<objs, adapterVars>>

(***************************************************************************)
(* The decorator factories.                                                *)
(*                                                                         *)
(* Classes are named by strings.  Base gives a class's base class in the   *)
(* interpreter's exception hierarchy (CancelledError derives from          *)
(* BaseException, not from Exception, as it has since Python 3.8); "str"   *)
(* is a class that is no exception type and "123" an object that is no     *)
(* class.                                                                  *)
(***************************************************************************)
MaxSel == 2

MaxCalls == 2

ExcClasses ==
    {"BaseException", "Exception", "LookupError", "IndexError", "ValueError",
     "CancelledError"}

Base(c) ==
    CASE c = "Exception" -> "BaseException"
      [] c = "CancelledError" -> "BaseException"
      [] c = "LookupError" -> "Exception"
      [] c = "ValueError" -> "Exception"
      [] c = "IndexError" -> "LookupError"
      [] OTHER -> "object"

\* inspect.isclass(x)
IsClass(x) == x \in ExcClasses \cup {"str", "object"}

\* issubclass(c, d)
RECURSIVE IsSubclass(_, _)
IsSubclass(c, d) ==
    \/ c = d
    \/ c # "object" /\ IsSubclass(Base(c), d)

\* What a caller may put in the exceptions tuple.
SelectorElems ==
    {"BaseException", "Exception", "IndexError", "ValueError", "CancelledError",
     "str", "123"}

SelectorTuples == UNION {[1..n -> SelectorElems] : n \in 0..MaxSel}

\* The argument of a factory call: exceptions=None, or a tuple.
FactoryArgs ==
    {[given |-> FALSE, exceptions |-> <<>>]}
        \cup {[given |-> TRUE, exceptions |-> t] : t \in SelectorTuples}

\* A changed as_result: the check without its `not exceptions`.
as_result_allowempty(arg) ==
    LET exceptions == IF ~arg.given THEN <<"Exception">> ELSE arg.exceptions
    IN  IF ~ \A k \in DOMAIN exceptions :
                 IsClass(exceptions[k]) /\ IsSubclass(exceptions[k], "BaseException")
        THEN [raised |-> "TypeError", exceptions |-> <<>>]
        ELSE [raised |-> "none", exceptions |-> exceptions]

\* as_result(exceptions): the default is put in, the tuple is checked, and
\* the call gives the tuple its decorator closes over, or raises TypeError.
as_result(arg) ==
    LET exceptions == IF ~arg.given THEN <<"Exception">> ELSE arg.exceptions
    IN  IF \/ Len(exceptions) = 0
           \/ ~ \A k \in DOMAIN exceptions :
                    IsClass(exceptions[k]) /\ IsSubclass(exceptions[k], "BaseException")
        THEN [raised |-> "TypeError", exceptions |-> <<>>]
        ELSE [raised |-> "none", exceptions |-> exceptions]

\* as_async_result(exceptions): the same check.
as_async_result(arg) ==
    LET exceptions == IF ~arg.given THEN <<"Exception">> ELSE arg.exceptions
    IN  IF \/ Len(exceptions) = 0
           \/ ~ \A k \in DOMAIN exceptions :
                    IsClass(exceptions[k]) /\ IsSubclass(exceptions[k], "BaseException")
        THEN [raised |-> "TypeError", exceptions |-> <<>>]
        ELSE [raised |-> "none", exceptions |-> exceptions]

\* except exceptions as exc: the raised object is an instance of one of the
\* classes of the tuple.
Caught(exc, exceptions) ==
    \E k \in DOMAIN exceptions : IsSubclass(exc.t, exceptions[k])

NoCall == [kind |-> "none", val |-> None]

Returns(v) == [kind |-> "return", val |-> v]

Raises(e) == [kind |-> "raise", val |-> e]

NoWrap == [kind |-> "none", res |-> NoObj, exc |-> None]

WrapRet(r) == [kind |-> "return", res |-> r, exc |-> None]

WrapRaise(e) == [kind |-> "raise", res |-> NoObj, exc |-> e]

\* A changed wrapper: the caught exception is wrapped anew, not kept.
wrapper_rewrapped(exceptions, did) ==
    IF did.kind = "return" THEN WrapRet(Ok_init(<<did.val>>))
    ELSE IF Caught(did.val, exceptions)
    THEN WrapRet(Err_init(<<Val(did.val.t, 0)>>))
    ELSE WrapRaise(did.val)

\* as_result.decorator.wrapper: did is what f(*args, **kwargs) did.
wrapper(exceptions, did) ==
    IF did.kind = "return" THEN WrapRet(Ok_init(<<did.val>>))
    ELSE IF Caught(did.val, exceptions) THEN WrapRet(Err_init(<<did.val>>))
    ELSE WrapRaise(did.val)

\* A changed async_wrapper: it remembers that it has produced an Err and
\* lets every later exception through.
async_wrapper_stateful(exceptions, did) ==
    IF did.kind = "return" THEN WrapRet(Ok_init(<<did.val>>))
    ELSE IF /\ Caught(did.val, exceptions)
            /\ ~ \E k \in DOMAIN calls : calls[k].out.res.cls = "Err"
    THEN WrapRet(Err_init(<<did.val>>))
    ELSE WrapRaise(did.val)

\* A changed async_wrapper: except BaseException.
async_wrapper_catchall(exceptions, did) ==
    IF did.kind = "return" THEN WrapRet(Ok_init(<<did.val>>))
    ELSE WrapRet(Err_init(<<did.val>>))

\* as_async_result.decorator.async_wrapper: did is how await f(*args,
\* **kwargs) ended.
async_wrapper(exceptions, did) ==
    IF did.kind = "return" THEN WrapRet(Ok_init(<<did.val>>))
    ELSE IF Caught(did.val, exceptions) THEN WrapRet(Err_init(<<did.val>>))
    ELSE WrapRaise(did.val)

NoAdapter == [stage |-> "none", async |-> FALSE, exceptions |-> <<>>]

NoFactory ==
    [called |-> FALSE, async |-> FALSE,
     arg |-> [given |-> FALSE, exceptions |-> <<>>], raised |-> "none"]

ReturnVals == {IntVal(123)}

Raisable == {"IndexError", "ValueError", "CancelledError"}

\* What the wrapped callable can do in invocation i: return a value, or
\* raise an exception object of its own (its identity is the invocation's).
\* A cancellation thrown into it is the CancelledError it may let through.
Behaviours(i) ==
    {Returns(v) : v \in ReturnVals} \cup {Raises(Val(c, i)) : c \in Raisable}

\* as_result(exceptions)
SyncFactory(arg) ==
    /\ adapter.stage = "none"
    /\ lastFactory' = [called |-> TRUE, async |-> FALSE, arg |-> arg,
                       raised |-> as_result(arg).raised]
    /\ adapter' = IF as_result(arg).raised = "none"
                  THEN [stage |-> "decorator", async |-> FALSE,
                        exceptions |-> as_result(arg).exceptions]
                  ELSE adapter
    /\ UNCHANGED <<calls, resultVars>>

\* as_async_result(exceptions)
AsyncFactory(arg) ==
    /\ adapter.stage = "none"
    /\ lastFactory' = [called |-> TRUE, async |-> TRUE, arg |-> arg,
                       raised |-> as_async_result(arg).raised]
    /\ adapter' = IF as_async_result(arg).raised = "none"
                  THEN [stage |-> "decorator", async |-> TRUE,
                        exceptions |-> as_async_result(arg).exceptions]
                  ELSE adapter
    /\ UNCHANGED <<calls, resultVars>>

\* decorator(f)
Decorate ==
    /\ adapter.stage = "decorator"
    /\ adapter' = [adapter EXCEPT !.stage = "wrapper"]
    /\ UNCHANGED <<lastFactory, calls, resultVars>>

\* A caller enters the wrapper: f is called (awaited) and has not ended.
Invoke ==
    /\ adapter.stage = "wrapper"
    /\ Len(calls) < MaxCalls
    /\ calls' = Append(calls, [cancelled |-> FALSE, did |-> NoCall, out |-> NoWrap])
    /\ UNCHANGED <<adapter, lastFactory, resultVars>>

\* The task running async_wrapper is cancelled while it awaits f: the
\* CancelledError is thrown into the awaited call.
Cancel(i) ==
    /\ adapter.async
    /\ calls[i].did.kind = "none"
    /\ ~calls[i].cancelled
    /\ calls' = [calls EXCEPT ![i].cancelled = TRUE]
    /\ UNCHANGED <<adapter, lastFactory, resultVars>>

\* f ends in the synchronous wrapper.
SyncEnd(i, did) ==
    /\ ~adapter.async
    /\ calls[i].did.kind = "none"
    /\ calls' = [calls EXCEPT ![i].did = did,
                              ![i].out = wrapper(adapter.exceptions, did)]
    /\ UNCHANGED <<adapter, lastFactory, resultVars>>

\* The awaited f ends in the asynchronous wrapper.
AsyncEnd(i, did) ==
    /\ adapter.async
    /\ calls[i].did.kind = "none"
    /\ calls' = [calls EXCEPT ![i].did = did,
                              ![i].out = async_wrapper(adapter.exceptions, did)]
    /\ UNCHANGED <<adapter, lastFactory, resultVars>>

(***************************************************************************)
(* The specifications.                                                     *)
(***************************************************************************)
Init ==
    /\ objs = <<>>
    /\ last = NoLast
    /\ adapter = NoAdapter
    /\ lastFactory = NoFactory
    /\ calls = <<>>

Next ==
    \/ \E args \in CtorArgs : OkNew(args)
    \/ \E args \in CtorArgs : ErrNew(args)
    \/ ErrNewNoArg
    \/ \E i \in Ids : Unwrap(i)
    \/ \E i \in Ids, d \in Defaults : UnwrapOr(i, d)
    \/ \E i \in Ids : ErrOf(i)
    \/ \E x \in Operands, y \in Operands : Eq(x, y)
    \/ \E x \in Operands, y \in Operands : Ne(x, y)
    \/ \E i \in Ids : Hash(i)
    \/ \E i \in Ids, name \in AttrNames, v \in AssignVals : Assign(i, name, v)
    \/ \E i \in Ids, cls \in {"Ok", "Err"} : Match(i, cls)
    \/ \E ids \in IdSeqs : SetOf(ids)

Spec == Init /\ [][Next]_vars

InitAdapter ==
    /\ objs = <<>>
    /\ last = NoLast
    /\ adapter = NoAdapter
    /\ lastFactory = NoFactory
    /\ calls = <<>>

NextAdapter ==
    \/ adapter.stage = "none" /\ \E arg \in FactoryArgs : SyncFactory(arg)
    \/ adapter.stage = "none" /\ \E arg \in FactoryArgs : AsyncFactory(arg)
    \/ Decorate
    \/ Invoke
    \/ \E i \in DOMAIN calls : Cancel(i)
    \/ \E i \in DOMAIN calls : \E did \in Behaviours(i) : SyncEnd(i, did)
    \/ \E i \in DOMAIN calls : \E did \in Behaviours(i) : AsyncEnd(i, did)

SpecAdapter == InitAdapter /\ [][NextAdapter]_vars

(***************************************************************************)
(* Properties of the result classes, checked under Spec.                   *)
(***************************************************************************)
Self == objs[last.self]

\* C5: both variants are immutable after construction: no operation on an
\* instance, attribute assignment to its payload field or to a new name
\* included, changes the held payload or attaches a field; the instance is
\* after every operation what it was before it.
C5_Immutable ==
    (last.op \in {"unwrap", "unwrap_or", "err", "hash", "match", "setattr"})
        => /\ Self = last.before
           /\ last.op = "setattr" => last.out.kind = "raise"

\* C6: matching an instance against the one-position class pattern of its
\* own variant succeeds and binds the held payload, and it never matches
\* the other variant's pattern.
C6_MatchBindsPayload ==
    last.op = "match"
        => /\ last.out.ret = BoolVal(Self.cls = last.name)
           /\ Self.cls = last.name => last.bind = Self._value

\* C7: unwrap() on an Ok and err() on an Err return the held payload;
\* unwrap() on an Err and err() on an Ok raise UnwrapError whose result is
\* the very instance the method was called on and whose message names the
\* method and the variant; the instance is unchanged in all four cases.
C7_UnwrapAndErr ==
    /\ (last.op = "unwrap" /\ Self.cls = "Ok") => last.out = Ret(last.before._value)
    /\ (last.op = "err" /\ Self.cls = "Err") => last.out = Ret(last.before._value)
    /\ (last.op = "unwrap" /\ Self.cls = "Err")
           => /\ last.out.kind = "raise"
              /\ last.out.exc.type = "UnwrapError"
              /\ last.out.exc.result = last.self
              /\ last.out.exc.message = "Called Result.unwrap() on an Err value"
    /\ (last.op = "err" /\ Self.cls = "Ok")
           => /\ last.out.kind = "raise"
              /\ last.out.exc.type = "UnwrapError"
              /\ last.out.exc.result = last.self
              /\ last.out.exc.message = "Called Result.err() on an Ok value"
    /\ last.op \in {"unwrap", "err"} => Self = last.before

\* C7's case: unwrap() raised on an Err while an equal Err, another
\* instance, is on the heap.
C7_Witness ==
    /\ last.op = "unwrap"
    /\ Self.cls = "Err"
    /\ last.out.kind = "raise"
    /\ \E j \in Ids : j # last.self /\ objs[j] = Self

\* Same variant and equal payloads.
SameResult(x, y) ==
    /\ x.t = "ref"
    /\ y.t = "ref"
    /\ objs[x.n].cls = objs[y.n].cls
    /\ ValEq(objs[x.n]._value, objs[y.n]._value)

\* C8: a == b holds exactly when a and b are results of the same variant
\* with equal payloads (so never across variants, never for unequal
\* payloads, never against a value that is no result, and without error),
\* and a != b is the negation of a == b.
C8_Equality ==
    /\ last.op = "eq" => last.out = Ret(BoolVal(SameResult(last.a, last.b)))
    /\ last.op = "ne" => last.out = Ret(BoolVal(~SameResult(last.a, last.b)))

\* C8's case: an Ok and an Err, two instances with equal payloads, compared
\* unequal.
C8_Witness ==
    /\ last.op = "eq"
    /\ last.a.t = "ref"
    /\ last.b.t = "ref"
    /\ last.a.n # last.b.n
    /\ objs[last.a.n].cls # objs[last.b.n].cls
    /\ ValEq(objs[last.a.n]._value, objs[last.b.n]._value)
    /\ last.out.ret = False

\* The instances equal to instance i: its (variant, payload) pair.
PairOf(i) == {j \in Ids : SameResult(Ref(i), Ref(j))}

\* C9: equal results hash equally; the hash is the tuple hash of a
\* per-variant discriminator (True for Ok, False for Err) and the payload;
\* a set built from a sequence of results has one member per distinct
\* (variant, payload) pair of the sequence.
C9_HashAndSets ==
    /\ \A i \in Ids, j \in Ids :
           PyEq(Ref(i), Ref(j)) => PyHash(i) = PyHash(j)
    /\ last.op = "hash"
           => last.out = Ret(IntVal(TupleHash(ValHash(BoolVal(Self.cls = "Ok")),
                                              ValHash(Self._value))))
    /\ ValHash(True) # ValHash(False)
    /\ last.op = "set"
           => last.out =
                  Ret(IntVal(Cardinality({PairOf(last.ids[k]) : k \in DOMAIN last.ids})))

\* C9's case: a set display of three elements, two of them different
\* instances that are equal, came out with one member.
C9_Witness ==
    /\ last.op = "set"
    /\ Len(last.ids) = 3
    /\ last.ids[1] # last.ids[2]
    /\ PyEq(Ref(last.ids[1]), Ref(last.ids[2]))
    /\ last.out.ret = IntVal(1)

\* C10: unwrap_or(d) never fails: on an Ok it returns the held value
\* whatever d is, on an Err it returns d, and the instance is unchanged.
C10_UnwrapOr ==
    last.op = "unwrap_or"
        => /\ last.out = Ret(IF Self.cls = "Ok" THEN last.before._value ELSE last.a)
           /\ Self = last.before

\* C10's case: unwrap_or on an Err returned a default that differs from
\* the held error.
C10_Witness ==
    /\ last.op = "unwrap_or"
    /\ Self.cls = "Err"
    /\ last.a # Self._value
    /\ last.out.ret = last.a

(***************************************************************************)
(* Properties of the decorators, checked under SpecAdapter.                *)
(***************************************************************************)
\* The state of an invocation, from what its wrapper has yielded.
StateOf(c) ==
    CASE c.out.kind = "none" -> "PENDING"
      [] c.out.kind = "return" /\ c.out.res.cls = "Ok" -> "SUCCESS_PRODUCED"
      [] c.out.kind = "return" /\ c.out.res.cls = "Err" -> "FAILURE_PRODUCED"
      [] OTHER -> "PROPAGATED"

Ended(c) == c.did.kind # "none"

\* The exception's type is one of the selectors or a subtype of one.
Selected(e) ==
    \E k \in DOMAIN adapter.exceptions : IsSubclass(e.t, adapter.exceptions[k])

\* C1: in every invocation of a wrapper of either factory, a returned r is
\* yielded as Ok(r); a raised exception whose type is a selector or a
\* subtype of one is yielded as Err holding that very exception object, and
\* nothing is raised; any other raised exception leaves the wrapper itself
\* and no result is yielded.
C1_WrapperOutcome ==
    \A i \in DOMAIN calls :
        LET c == calls[i]
        IN  /\ c.did.kind = "return"
                => c.out = [kind |-> "return",
                            res |-> [cls |-> "Ok", _value |-> c.did.val],
                            exc |-> None]
            /\ (c.did.kind = "raise" /\ Selected(c.did.val))
                => c.out = [kind |-> "return",
                            res |-> [cls |-> "Err", _value |-> c.did.val],
                            exc |-> None]
            /\ (c.did.kind = "raise" /\ ~Selected(c.did.val))
                => c.out = [kind |-> "raise", res |-> NoObj, exc |-> c.did.val]

\* C1's case: a factory called without selectors, so that Exception alone
\* selects, and its wrapper has yielded Err holding the IndexError object
\* the callable raised in that invocation.
C1_Witness ==
    /\ ~lastFactory.arg.given
    /\ adapter.exceptions = <<"Exception">>
    /\ \E i \in DOMAIN calls :
           /\ calls[i].did = Raises(Val("IndexError", i))
           /\ calls[i].out.res = [cls |-> "Err", _value |-> Val("IndexError", i)]

\* C2 as claimed: with any valid selectors, an invocation of the
\* asynchronous wrapper that was cancelled while awaiting yields no result
\* and ends with the cancellation leaving the wrapper.
C2_CancelNeverYields ==
    \A i \in DOMAIN calls :
        (adapter.async /\ calls[i].cancelled /\ Ended(calls[i]))
            => /\ calls[i].out.kind = "raise"
               /\ calls[i].out.exc.t = "CancelledError"

\* C2 as amended: a cancellation reaches the awaited call while the wrapper
\* has yielded nothing; when the awaited call lets the CancelledError
\* through and no selector is CancelledError or a base class of it, the
\* wrapper yields no result and that CancelledError leaves the wrapper.
C2_CancelPropagates ==
    \A i \in DOMAIN calls :
        /\ (calls[i].cancelled /\ ~Ended(calls[i])) => calls[i].out = NoWrap
        /\ ( /\ adapter.async
             /\ calls[i].cancelled
             /\ calls[i].did = Raises(Val("CancelledError", i))
             /\ ~Selected(Val("CancelledError", i)) )
               => calls[i].out =
                      [kind |-> "raise", res |-> NoObj,
                       exc |-> Val("CancelledError", i)]

\* C2's case: a cancelled invocation whose awaited call let the
\* CancelledError through, under selectors that do not select it.
C2_Witness ==
    /\ adapter.async
    /\ adapter.exceptions = <<"IndexError", "ValueError">>
    /\ \E i \in DOMAIN calls :
           /\ calls[i].cancelled
           /\ calls[i].did = Raises(Val("CancelledError", i))
           /\ calls[i].out.kind = "raise"

\* What the callable did, apart from which object it raised.
Deed(c) == [kind |-> c.did.kind, t |-> c.did.val.t, n |-> IF c.did.kind = "return" THEN c.did.val.n ELSE 0]

\* C3: an invocation starts PENDING and leaves PENDING only for one of
\* SUCCESS_PRODUCED, FAILURE_PRODUCED and PROPAGATED, where it stays; its
\* state is decided by what the callable did in it alone, whatever the
\* other invocations of the wrapper did and however they interleave.
C3_Invocations ==
    /\ [](\A i \in DOMAIN calls :
            /\ StateOf(calls[i]) = "PENDING" <=> ~Ended(calls[i])
            /\ \A j \in DOMAIN calls :
                   Deed(calls[i]) = Deed(calls[j])
                       => StateOf(calls[i]) = StateOf(calls[j]))
    /\ [][ /\ \A i \in DOMAIN calls :
                  StateOf(calls[i]) # "PENDING"
                      => (i \in DOMAIN calls' /\ calls'[i] = calls[i])
           /\ \A i \in DOMAIN calls' :
                  i \notin DOMAIN calls => StateOf(calls'[i]) = "PENDING"
         ]_vars

\* C3's case: the second invocation has ended in FAILURE_PRODUCED while
\* the first, entered before it, is still PENDING.
C3_Witness ==
    /\ Len(calls) = 2
    /\ StateOf(calls[1]) = "PENDING"
    /\ StateOf(calls[2]) = "FAILURE_PRODUCED"

\* The classes that are exception types.
ExceptionTypes == {c \in ExcClasses : IsSubclass(c, "BaseException")}

\* A factory argument that is acceptable: none, or a non-empty tuple of
\* exception types.
Acceptable(arg) ==
    \/ ~arg.given
    \/ /\ Len(arg.exceptions) > 0
       /\ \A k \in DOMAIN arg.exceptions : arg.exceptions[k] \in ExceptionTypes

\* C4: a factory call raises TypeError exactly when its selector tuple is
\* empty or holds an element that is no exception type; a call that raised
\* has made no decorator and no wrapper and nothing is invoked; a decorator
\* exists only over a non-empty tuple of exception types.
C4_DecorationTime ==
    /\ lastFactory.called
           => (lastFactory.raised = "TypeError" <=> ~Acceptable(lastFactory.arg))
    /\ lastFactory.raised = "TypeError" => (adapter = NoAdapter /\ calls = <<>>)
    /\ adapter.stage # "none"
           => /\ Len(adapter.exceptions) > 0
              /\ \A k \in DOMAIN adapter.exceptions :
                     adapter.exceptions[k] \in ExceptionTypes
    /\ calls # <<>> => adapter.stage = "wrapper"

\* C4's case: a factory call with a tuple whose first element is an
\* exception type and whose second is a class that is none has raised.
C4_Witness ==
    /\ lastFactory.called
    /\ lastFactory.arg.exceptions = <<"ValueError", "str">>
    /\ lastFactory.raised = "TypeError"
    /\ adapter = NoAdapter

====
